---------------------------- MODULE Spec2Model ----------------------------
(***************************************************************************)
(* PathoFlow: the four numerical components of the pathogen simulation     *)
(* (SEIR progression, healthcare load, variant compositor, global spread). *)
(*                                                                         *)
(* Python's float arithmetic is modelled by exact rational arithmetic over *)
(* arbitrary-size naturals (little-endian limbs of radix 10^4), so the     *)
(* model states the real-number value of every expression of the source;   *)
(* IEEE-754 rounding is not modelled.                                      *)
(***************************************************************************)
EXTENDS Integers, Sequences, FiniteSets, TLC

(***************************************************************************)
(* Arbitrary-size naturals: <<>> is 0, no high zero limb.                  *)
(***************************************************************************)
Base == 100 * 100

RECURSIVE BigNorm(_)
BigNorm(a) ==
    IF a = <<>> THEN <<>>
    ELSE IF a[Len(a)] = 0 THEN BigNorm(SubSeq(a, 1, Len(a) - 1))
    ELSE a

RECURSIVE BigOfInt(_)
BigOfInt(n) ==
    IF n = 0 THEN <<>> ELSE <<n % Base>> \o BigOfInt(n \div Base)

BigRest(a) == IF a = <<>> THEN <<>> ELSE Tail(a)

BigLow(a) == IF a = <<>> THEN 0 ELSE Head(a)

RECURSIVE BigAddC(_, _, _)
BigAddC(a, b, c) ==
    IF a = <<>> /\ b = <<>>
    THEN (IF c = 0 THEN <<>> ELSE <<c>>)
    ELSE LET x == BigLow(a) + BigLow(b) + c
         IN  <<x % Base>> \o BigAddC(BigRest(a), BigRest(b), x \div Base)

BigAdd(a, b) == BigAddC(a, b, 0)

\* a - b - c for a >= b + c
RECURSIVE BigSubB(_, _, _)
BigSubB(a, b, c) ==
    IF a = <<>> THEN <<>>
    ELSE LET x == BigLow(a) - BigLow(b) - c
         IN  IF x < 0
             THEN <<x + Base>> \o BigSubB(Tail(a), BigRest(b), 1)
             ELSE <<x>> \o BigSubB(Tail(a), BigRest(b), 0)

BigSub(a, b) == BigNorm(BigSubB(a, b, 0))

\* -1, 0, 1 as a < b, a = b, a > b: limb i downwards
RECURSIVE BigCmpAt(_, _, _)
BigCmpAt(a, b, i) ==
    IF i = 0 THEN 0
    ELSE IF a[i] < b[i] THEN -1
    ELSE IF a[i] > b[i] THEN 1
    ELSE BigCmpAt(a, b, i - 1)

BigCmp(a, b) ==
    IF Len(a) < Len(b) THEN -1
    ELSE IF Len(a) > Len(b) THEN 1
    ELSE BigCmpAt(a, b, Len(a))

RECURSIVE BigMulSmallC(_, _, _)
BigMulSmallC(a, k, c) ==
    IF a = <<>> THEN (IF c = 0 THEN <<>> ELSE <<c>>)
    ELSE LET x == Head(a) * k + c
         IN  <<x % Base>> \o BigMulSmallC(Tail(a), k, x \div Base)

BigMulSmall(a, k) == IF k = 0 THEN <<>> ELSE BigMulSmallC(a, k, 0)

BigShift(a) == IF a = <<>> THEN <<>> ELSE <<0>> \o a

RECURSIVE BigMul(_, _)
BigMul(a, b) ==
    IF a = <<>> \/ b = <<>> THEN <<>>
    ELSE BigAdd(BigMulSmall(a, Head(b)), BigShift(BigMul(a, Tail(b))))

\* a mod k and a div k for 0 < k < Base, from the high limb down
RECURSIVE BigModSmallAt(_, _, _, _)
BigModSmallAt(a, k, i, r) ==
    IF i = 0 THEN r ELSE BigModSmallAt(a, k, i - 1, (r * Base + a[i]) % k)

BigModSmall(a, k) == BigModSmallAt(a, k, Len(a), 0)

RECURSIVE BigDivSmallAt(_, _, _, _)
BigDivSmallAt(a, k, i, r) ==
    IF i = 0 THEN <<>>
    ELSE LET x == r * Base + a[i]
         IN  BigDivSmallAt(a, k, i - 1, x % k) \o <<x \div k>>

BigDivSmall(a, k) == BigNorm(BigDivSmallAt(a, k, Len(a), 0))

\* the largest q in lo..hi with b * q <= r
RECURSIVE BigDigit(_, _, _, _)
BigDigit(r, b, lo, hi) ==
    IF lo = hi THEN lo
    ELSE IF BigCmp(BigMulSmall(b, (lo + hi + 1) \div 2), r) <= 0
    THEN BigDigit(r, b, (lo + hi + 1) \div 2, hi)
    ELSE BigDigit(r, b, lo, (lo + hi + 1) \div 2 - 1)

\* long division of a by b # 0: the quotient limbs 1..i, r the remainder of
\* the limbs above them; r1 is r with limb i brought down, q its quotient limb
RECURSIVE BigDivAt(_, _, _, _)
BigDivTake(a, b, i, r1, q) ==
    BigDivAt(a, b, i - 1, BigSub(r1, BigMulSmall(b, q))) \o <<q>>

BigDivBring(a, b, i, r1) ==
    BigDivTake(a, b, i, r1, BigDigit(r1, b, 0, Base - 1))

BigDivAt(a, b, i, r) ==
    IF i = 0 THEN <<>> ELSE BigDivBring(a, b, i, BigNorm(<<a[i]>> \o r))

BigDiv(a, b) == BigNorm(BigDivAt(a, b, Len(a), <<>>))

\* the machine integer of a (below 2^31)
RECURSIVE BigToInt(_)
BigToInt(a) == IF a = <<>> THEN 0 ELSE Head(a) + Base * BigToInt(Tail(a))

(***************************************************************************)
(* Rationals: [neg, n, d] is (-1)^neg * n / d; the common factors 10^4,    *)
(* 10, 2, 5, 3 and 7 are cancelled after every operation.  A division by   *)
(* zero that numpy does not raise on leaves d = 0: n / 0 is inf, 0 / 0 is  *)
(* NaN.                                                                    *)
(***************************************************************************)
CancelFactors == <<Base, 10, 2, 5, 3, 7>>

\* k divides a # 0: by the low limb when k divides the radix
BigDivisible(a, k) ==
    IF Base % k = 0 THEN Head(a) % k = 0 ELSE BigModSmall(a, k) = 0

\* p = <<n, d>> with every common factor of the list ks cancelled
RECURSIVE RatCancel(_, _)
RatCancel(p, ks) ==
    IF ks = <<>> THEN p
    ELSE IF BigDivisible(p[1], Head(ks)) /\ BigDivisible(p[2], Head(ks))
    THEN RatCancel(<<BigDivSmall(p[1], Head(ks)), BigDivSmall(p[2], Head(ks))>>, ks)
    ELSE RatCancel(p, Tail(ks))

RatMake(neg, p) == [neg |-> neg, n |-> p[1], d |-> p[2]]

\* a zero denominator (a division by zero that did not raise) is kept as it is
RatReduce(neg, p) ==
    IF p[2] = <<>> THEN RatMake(neg, p)
    ELSE IF p[1] = <<>> THEN [neg |-> FALSE, n |-> <<>>, d |-> <<1>>]
    ELSE RatMake(neg, RatCancel(p, CancelFactors))

\* the integer i, and the fraction i / j (j > 0), of machine integers
RatOfInt(i) == [neg |-> i < 0, n |-> BigOfInt(IF i < 0 THEN -i ELSE i), d |-> <<1>>]

RatFrac(i, j) ==
    RatReduce(i < 0, <<BigOfInt(IF i < 0 THEN -i ELSE i), BigOfInt(j)>>)

RatNeg(x) == IF x.n = <<>> THEN x ELSE [x EXCEPT !.neg = ~x.neg]

RatMul(x, y) ==
    RatReduce(x.neg # y.neg, <<BigMul(x.n, y.n), BigMul(x.d, y.d)>>)

\* x / y; y = 0 gives a zero denominator
RatDiv(x, y) ==
    RatReduce(x.neg # y.neg, <<BigMul(x.n, y.d), BigMul(x.d, y.n)>>)

\* m = <<x.n * y.d, y.n * x.d, x.d * y.d>>, c = BigCmp(m[1], m[2])
RatAddParts(xneg, yneg, m, c) ==
    RatReduce(IF xneg = yneg \/ c >= 0 THEN xneg ELSE yneg,
              <<IF xneg = yneg THEN BigAdd(m[1], m[2])
                ELSE BigSub(IF c >= 0 THEN m[1] ELSE m[2],
                            IF c >= 0 THEN m[2] ELSE m[1]),
                m[3]>>)

RatAddProducts(xneg, yneg, m) == RatAddParts(xneg, yneg, m, BigCmp(m[1], m[2]))

RatAdd(x, y) ==
    RatAddProducts(x.neg, y.neg,
                   <<BigMul(x.n, y.d), BigMul(y.n, x.d), BigMul(x.d, y.d)>>)

RatSub(x, y) == RatAdd(x, RatNeg(y))

\* -1, 0, 1 as x < y, x = y, x > y; m = <<x.n * y.d, y.n * x.d>>
RatCmpProducts(xneg, yneg, m) ==
    IF xneg /\ ~yneg THEN -1
    ELSE IF ~xneg /\ yneg THEN 1
    ELSE BigCmp(IF xneg THEN m[2] ELSE m[1], IF xneg THEN m[1] ELSE m[2])

RatCmp(x, y) ==
    RatCmpProducts(x.neg, y.neg, <<BigMul(x.n, y.d), BigMul(y.n, x.d)>>)

RatEq(x, y) == RatCmp(x, y) = 0
RatLe(x, y) == RatCmp(x, y) <= 0
RatLt(x, y) == RatCmp(x, y) < 0
RatMin(x, y) == IF RatLt(y, x) THEN y ELSE x
RatMax(x, y) == IF RatLt(x, y) THEN y ELSE x
RatIsZero(x) == x.n = <<>> /\ x.d # <<>>
RatIsFinite(x) == x.d # <<>>
RatIsNaN(x) == x.n = <<>> /\ x.d = <<>>

\* floor(x) for a finite x >= 0, as a machine integer
RatFloor(x) == BigToInt(BigDiv(x.n, x.d))

Zero == RatOfInt(0)
One == RatOfInt(1)

(***************************************************************************)
(* State.  Each component is a function of the configuration the caller    *)
(* hands it; the model keeps, per component, the inputs of the call and    *)
(* the value the call produced.                                            *)
(*   seir_in, seir_out : calculate_infection_progression                   *)
(*   seir_report       : the key statistics display_infection_progress     *)
(*                       derives from the series                           *)
(*   seir_prev         : the run of the page before the current one        *)
(*   hc_in, hc_out     : calculate_healthcare_metrics, hc_prev the call    *)
(*                       before it, now the wall clock (datetime.now())    *)
(*   gs_in, gs_out     : calculate_global_spread                           *)
(*   vc_in, vc_out     : calculate_variant_impact and                      *)
(*                       calculate_vaccine_effectiveness, vc_prev the      *)
(*                       evaluation before the current one                 *)
(*   session_state     : st.session_state of the application of main.py    *)
(*   lists             : the two list objects the session's vaccine keys   *)
(*                       refer to                                          *)
(*   ui                : the page selected in the sidebar and what the     *)
(*                       last run of main rendered                         *)
(*   csv_file          : the file data/country_data.csv                    *)
(***************************************************************************)
VARIABLES seir_in, seir_out, seir_report, seir_prev,
          hc_in, hc_out, hc_prev, now, gs_in, gs_out, vc_in, vc_out, vc_prev,
          session_state, lists, ui, csv_file

vars == <<seir_in, seir_out, seir_report, seir_prev,
          hc_in, hc_out, hc_prev, now, gs_in, gs_out, vc_in, vc_out, vc_prev,
          session_state, lists, ui, csv_file>>

seir_vars == <<seir_in, seir_out, seir_report, seir_prev>>
hc_vars == <<hc_in, hc_out, hc_prev, now>>
gs_vars == <<gs_in, gs_out>>
vc_vars == <<vc_in, vc_out, vc_prev>>
app_vars == <<session_state, lists, ui, csv_file>>

\* a component that the running page does not use
Idle == [err |-> "idle", rows |-> <<>>]
NoCall == [in |-> <<>>, out |-> Idle]

\* no statistics shown
NoReport == [shown |-> FALSE]
NoRun == [in |-> <<>>, out |-> Idle, report |-> NoReport]

SeirIdle ==
    seir_in = <<>> /\ seir_out = Idle /\ seir_report = NoReport /\ seir_prev = NoRun
HcIdle == hc_in = <<>> /\ hc_out = Idle /\ hc_prev = NoCall /\ now = 0
GsIdle == gs_in = <<>> /\ gs_out = Idle
VcIdle == vc_in = <<>> /\ vc_out = Idle /\ vc_prev = NoCall

\* the application is not running
NoUi == [page |-> "idle", view |-> "none"]
NoFile == [exists |-> FALSE]
NoLists == [own |-> <<>>, temp |-> <<>>]
AppIdle ==
    session_state = <<>> /\ lists = NoLists /\ ui = NoUi /\ csv_file = NoFile

\* no call made yet
Pending == [err |-> "pending", rows |-> <<>>]

(***************************************************************************)
(* visualizations/infection_progress.py                                    *)
(***************************************************************************)
N == 100000
I0 == 100
E0 == 200
R0 == 0
D0 == 0
S0 == N - I0 - E0 - R0 - D0

\* the daily step with the deceased left in the infected compartment
seir_step_leak(prev, t, beta, sigma, gamma, mu) ==
    LET S == prev.Susceptible
        E == prev.Exposed
        I == prev.Infected
        new_exposed == RatDiv(RatMul(RatMul(beta, S), I), RatOfInt(N))
        new_infected == RatMul(sigma, E)
        new_recovered == RatMul(RatMul(gamma, I), RatSub(One, mu))
        new_deceased == RatMul(RatMul(gamma, I), mu)
    IN  [Day |-> t,
         Susceptible |-> RatSub(S, new_exposed),
         Exposed |-> RatSub(RatAdd(E, new_exposed), new_infected),
         Infected |-> RatSub(RatAdd(I, new_infected), new_recovered),
         Recovered |-> RatAdd(prev.Recovered, new_recovered),
         Deceased |-> RatAdd(prev.Deceased, new_deceased)]

\* the daily step updating in place: the newly exposed become infectious
\* on the day they are exposed
seir_step_inplace(prev, t, beta, sigma, gamma, mu) ==
    LET S == prev.Susceptible
        I == prev.Infected
        new_exposed == RatDiv(RatMul(RatMul(beta, S), I), RatOfInt(N))
        E == RatAdd(prev.Exposed, new_exposed)
        new_infected == RatMul(sigma, E)
        new_recovered == RatMul(RatMul(gamma, I), RatSub(One, mu))
        new_deceased == RatMul(RatMul(gamma, I), mu)
    IN  [Day |-> t,
         Susceptible |-> RatSub(S, new_exposed),
         Exposed |-> RatSub(E, new_infected),
         Infected |-> RatSub(RatSub(RatAdd(I, new_infected), new_recovered),
                             new_deceased),
         Recovered |-> RatAdd(prev.Recovered, new_recovered),
         Deceased |-> RatAdd(prev.Deceased, new_deceased)]

\* the daily step with the shares of the recovered and the deceased exchanged
seir_step_swapped(prev, t, beta, sigma, gamma, mu) ==
    LET S == prev.Susceptible
        E == prev.Exposed
        I == prev.Infected
        new_exposed == RatDiv(RatMul(RatMul(beta, S), I), RatOfInt(N))
        new_infected == RatMul(sigma, E)
        new_recovered == RatMul(RatMul(gamma, I), mu)
        new_deceased == RatMul(RatMul(gamma, I), RatSub(One, mu))
    IN  [Day |-> t,
         Susceptible |-> RatSub(S, new_exposed),
         Exposed |-> RatSub(RatAdd(E, new_exposed), new_infected),
         Infected |-> RatSub(RatSub(RatAdd(I, new_infected), new_recovered),
                             new_deceased),
         Recovered |-> RatAdd(prev.Recovered, new_recovered),
         Deceased |-> RatAdd(prev.Deceased, new_deceased)]

\* the recovered return to the susceptible (no lasting immunity)
seir_step_reinfection(prev, t, beta, sigma, gamma, mu) ==
    LET S == prev.Susceptible
        E == prev.Exposed
        I == prev.Infected
        new_exposed == RatDiv(RatMul(RatMul(beta, S), I), RatOfInt(N))
        new_infected == RatMul(sigma, E)
        new_recovered == RatMul(RatMul(gamma, I), RatSub(One, mu))
        new_deceased == RatMul(RatMul(gamma, I), mu)
    IN  [Day |-> t,
         Susceptible |-> RatAdd(RatSub(S, new_exposed), new_recovered),
         Exposed |-> RatSub(RatAdd(E, new_exposed), new_infected),
         Infected |-> RatSub(RatSub(RatAdd(I, new_infected), new_recovered),
                             new_deceased),
         Recovered |-> prev.Recovered,
         Deceased |-> RatAdd(prev.Deceased, new_deceased)]

\* new_exposed not divided by N
seir_step_unscaled(prev, t, beta, sigma, gamma, mu) ==
    LET S == prev.Susceptible
        E == prev.Exposed
        I == prev.Infected
        new_exposed == RatMul(RatMul(beta, S), I)
        new_infected == RatMul(sigma, E)
        new_recovered == RatMul(RatMul(gamma, I), RatSub(One, mu))
        new_deceased == RatMul(RatMul(gamma, I), mu)
    IN  [Day |-> t,
         Susceptible |-> RatSub(S, new_exposed),
         Exposed |-> RatSub(RatAdd(E, new_exposed), new_infected),
         Infected |-> RatSub(RatSub(RatAdd(I, new_infected), new_recovered),
                             new_deceased),
         Recovered |-> RatAdd(prev.Recovered, new_recovered),
         Deceased |-> RatAdd(prev.Deceased, new_deceased)]

\* the body of the daily loop: record t from record t-1
seir_step(prev, t, beta, sigma, gamma, mu) ==
    LET S == prev.Susceptible
        E == prev.Exposed
        I == prev.Infected
        R == prev.Recovered
        D == prev.Deceased
        new_exposed == RatDiv(RatMul(RatMul(beta, S), I), RatOfInt(N))
        new_infected == RatMul(sigma, E)
        new_recovered == RatMul(RatMul(gamma, I), RatSub(One, mu))
        new_deceased == RatMul(RatMul(gamma, I), mu)
    IN  [Day |-> t,
         Susceptible |-> RatSub(S, new_exposed),
         Exposed |-> RatSub(RatAdd(E, new_exposed), new_infected),
         Infected |-> RatSub(RatSub(RatAdd(I, new_infected), new_recovered),
                             new_deceased),
         Recovered |-> RatAdd(R, new_recovered),
         Deceased |-> RatAdd(D, new_deceased)]

\* for t in range(1, num_days): rows holds records 0..t-1
RECURSIVE seir_loop(_, _, _, _, _, _, _)
seir_loop(rows, t, num_days, beta, sigma, gamma, mu) ==
    IF t >= num_days THEN rows
    ELSE seir_loop(Append(rows, seir_step(rows[t], t, beta, sigma, gamma, mu)),
                   t + 1, num_days, beta, sigma, gamma, mu)

seir_initial ==
    [Day |-> 0,
     Susceptible |-> RatOfInt(S0),
     Exposed |-> RatOfInt(E0),
     Infected |-> RatOfInt(I0),
     Recovered |-> RatOfInt(R0),
     Deceased |-> RatOfInt(D0)]

\* only the incubation period checked: 1 / 0 taken as a value (numpy's inf)
seir_rate_error_incubation_only(params) == params.incubation_period = 0

\* 1 / period raises ZeroDivisionError for a period of 0
seir_rate_error(params) ==
    params.incubation_period = 0 \/ params.infectious_period = 0

\* S[0] = S0 on an array of num_days zeros raises IndexError for num_days = 0
seir_index_error(num_days) == num_days = 0

\* beta = params['transmission_rate'] / 100
seir_beta(params) == RatFrac(params.transmission_rate, 100)

\* mu = params['mortality_rate'] / 100
seir_mu(params) == RatFrac(params.mortality_rate, 100)

calculate_infection_progression(params, num_days) ==
    IF seir_rate_error(params)
    THEN [err |-> "ZeroDivisionError", rows |-> <<>>]
    ELSE IF seir_index_error(num_days)
    THEN [err |-> "IndexError", rows |-> <<>>]
    ELSE [err |-> "none",
          rows |-> seir_loop(<<seir_initial>>, 1, num_days,
                             seir_beta(params),
                             RatFrac(1, params.incubation_period),
                             RatFrac(1, params.infectious_period),
                             seir_mu(params))]

(***************************************************************************)
(* Inputs of the SEIR runs: the sidebar's domains (main.py), sampled.      *)
(***************************************************************************)
MaxDays == 4

TransmissionRates == {0, 50, 100}
IncubationPeriods == {0, 1, 5}
InfectiousPeriods == {0, 2, 14}
MortalityRates == {0, 2, 100}
RecoveryRates == {50, 95}

PathogenProfiles ==
    [transmission_rate : TransmissionRates,
     incubation_period : IncubationPeriods,
     infectious_period : InfectiousPeriods,
     recovery_rate : RecoveryRates,
     mortality_rate : MortalityRates]

\* int(x): truncation towards zero
py_int(x) ==
    IF x.neg THEN 0 - RatFloor([x EXCEPT !.neg = FALSE]) ELSE RatFloor(x)

\* df['Infected'].sum()
RECURSIVE infected_sum(_)
infected_sum(rows) ==
    IF rows = <<>> THEN Zero
    ELSE RatAdd(infected_sum(SubSeq(rows, 1, Len(rows) - 1)),
                rows[Len(rows)].Infected)

\* df['Infected'].idxmax(): the first row holding the maximum, from row i on
RECURSIVE infected_idxmax(_, _, _)
infected_idxmax(rows, i, best) ==
    IF i > Len(rows) THEN best
    ELSE infected_idxmax(rows, i + 1,
                         IF RatLt(rows[best].Infected, rows[i].Infected)
                         THEN i ELSE best)

\* (total_deceased / total_infected * 100) if total_infected > 0 else 0
mortality_percentage(total_deceased, total_infected) ==
    IF total_infected > 0
    THEN RatMul(RatDiv(RatOfInt(total_deceased), RatOfInt(total_infected)),
                RatOfInt(100))
    ELSE Zero

\* the statistics of a series of at least one record
key_statistics(rows, peak) ==
    [shown |-> TRUE,
     peak_infected |-> py_int(rows[peak].Infected),
     peak_day |-> rows[peak].Day,
     total_infected |-> py_int(infected_sum(rows)),
     total_deceased |-> py_int(rows[Len(rows)].Deceased),
     mortality_percentage |->
         mortality_percentage(py_int(rows[Len(rows)].Deceased),
                              py_int(infected_sum(rows)))]

\* display_infection_progress: an exception of the calculation ends the page
seir_statistics(out) ==
    IF out.err # "none" THEN NoReport
    ELSE key_statistics(out.rows, infected_idxmax(out.rows, 2, 1))

SeirInit ==
    /\ seir_in \in [params : PathogenProfiles, num_days : 0..MaxDays]
    /\ seir_out = Pending
    /\ seir_report = NoReport
    /\ seir_prev = NoRun
    /\ HcIdle
    /\ GsIdle
    /\ VcIdle
    /\ AppIdle

seir_call(in) == calculate_infection_progression(in.params, in.num_days)

\* display_infection_progress / a caller: one call with the configured inputs
SeirRun ==
    /\ seir_out = Pending
    /\ seir_out' = seir_call(seir_in)
    /\ seir_report' = seir_statistics(seir_call(seir_in))
    /\ UNCHANGED <<seir_in, seir_prev, hc_vars, gs_vars, vc_vars, app_vars>>

\* the inputs with the profile's mortality rate set to value
with_mortality(in, value) == [in EXCEPT !.params.mortality_rate = value]

\* the user edits the mortality rate and the page runs again
SeirEditMortality ==
    /\ seir_out # Pending
    /\ \E value \in MortalityRates \ {seir_in.params.mortality_rate} :
         /\ seir_in' = with_mortality(seir_in, value)
         /\ seir_out' = seir_call(with_mortality(seir_in, value))
         /\ seir_report' = seir_statistics(seir_call(with_mortality(seir_in, value)))
    /\ seir_prev' = [in |-> seir_in, out |-> seir_out, report |-> seir_report]
    /\ UNCHANGED <<hc_vars, gs_vars, vc_vars, app_vars>>

\* the inputs with the profile's recovery and mortality rates replaced
with_outcome(in, recovery, mortality) ==
    [in EXCEPT !.params.recovery_rate = recovery,
               !.params.mortality_rate = mortality]

\* the user edits the recovery rate, and possibly the mortality rate with
\* it, and the page runs again
SeirEditRecovery ==
    /\ seir_out # Pending
    /\ \E recovery \in RecoveryRates \ {seir_in.params.recovery_rate} :
       \E mortality \in MortalityRates :
         /\ seir_in' = with_outcome(seir_in, recovery, mortality)
         /\ seir_out' = seir_call(with_outcome(seir_in, recovery, mortality))
         /\ seir_report' =
               seir_statistics(seir_call(with_outcome(seir_in, recovery, mortality)))
    /\ seir_prev' = [in |-> seir_in, out |-> seir_out, report |-> seir_report]
    /\ UNCHANGED <<hc_vars, gs_vars, vc_vars, app_vars>>

SeirNext == SeirRun \/ SeirEditMortality \/ SeirEditRecovery

SpecSeir == SeirInit /\ [][SeirNext]_vars

SeirDone == seir_out.err \notin {"pending", "idle"}

\* C27: for every in-domain profile and every horizon the five compartments
\* S, E, I, R, D are non-negative on every day.
InvC27_NonNegative ==
    (/\ SeirDone
     /\ seir_out.err = "none"
     /\ seir_in.params.transmission_rate \in 0..100
     /\ seir_in.params.mortality_rate \in 0..100
     /\ seir_in.params.incubation_period >= 1
     /\ seir_in.params.infectious_period >= 1)
    => \A t \in 1..Len(seir_out.rows) :
          /\ RatLe(Zero, seir_out.rows[t].Susceptible)
          /\ RatLe(Zero, seir_out.rows[t].Exposed)
          /\ RatLe(Zero, seir_out.rows[t].Infected)
          /\ RatLe(Zero, seir_out.rows[t].Recovered)
          /\ RatLe(Zero, seir_out.rows[t].Deceased)

\* four days at the edge of the domain (transmission and mortality 100,
\* incubation 1): Recovered stays at 0, the others are positive
WitC27_NonNegative ==
    /\ SeirDone
    /\ seir_out.err = "none"
    /\ Len(seir_out.rows) = 4
    /\ seir_in.params.transmission_rate = 100
    /\ seir_in.params.mortality_rate = 100
    /\ seir_in.params.incubation_period = 1
    /\ RatIsZero(seir_out.rows[4].Recovered)
    /\ RatLt(Zero, seir_out.rows[4].Susceptible)
    /\ RatLt(Zero, seir_out.rows[4].Exposed)
    /\ RatLt(Zero, seir_out.rows[4].Infected)
    /\ RatLt(Zero, seir_out.rows[4].Deceased)

\* C28: two runs whose profiles differ only in mortality_rate (or
\* recovery_rate) have identical S, E and I on every day, and identical
\* R[t] + D[t] on every day.
InvC28_MortalityBlind ==
    (/\ SeirDone
     /\ seir_out.err = "none"
     /\ seir_prev.in # <<>>
     /\ seir_prev.out.err = "none"
     /\ seir_prev.in.num_days = seir_in.num_days
     /\ [seir_prev.in.params EXCEPT !.mortality_rate = 0, !.recovery_rate = 0]
          = [seir_in.params EXCEPT !.mortality_rate = 0, !.recovery_rate = 0])
    => \A t \in 1..Len(seir_out.rows) :
          /\ seir_out.rows[t].Susceptible = seir_prev.out.rows[t].Susceptible
          /\ seir_out.rows[t].Exposed = seir_prev.out.rows[t].Exposed
          /\ seir_out.rows[t].Infected = seir_prev.out.rows[t].Infected
          /\ RatEq(RatAdd(seir_out.rows[t].Recovered, seir_out.rows[t].Deceased),
                   RatAdd(seir_prev.out.rows[t].Recovered,
                          seir_prev.out.rows[t].Deceased))

\* the mortality rate went from 2 to 100 and the recovery rate from 95 to
\* 50 over four days: Deceased differs, S, E and I are the same
WitC28_MortalityBlind ==
    /\ SeirDone
    /\ seir_out.err = "none"
    /\ seir_prev.in # <<>>
    /\ seir_prev.out.err = "none"
    /\ Len(seir_out.rows) = 4
    /\ Len(seir_prev.out.rows) = 4
    /\ seir_prev.in.params.mortality_rate = 2
    /\ seir_in.params.mortality_rate = 100
    /\ seir_prev.in.params.recovery_rate = 95
    /\ seir_in.params.recovery_rate = 50
    /\ seir_out.rows[4].Deceased # seir_prev.out.rows[4].Deceased
    /\ seir_out.rows[4].Infected = seir_prev.out.rows[4].Infected
    /\ seir_out.rows[4].Susceptible # seir_out.rows[1].Susceptible

\* percentages a caller other than the sidebar may hand over
AnyPercentages == {0 - 50, 50, 150}

AnyProfiles ==
    [transmission_rate : AnyPercentages,
     incubation_period : IncubationPeriods \ {0},
     infectious_period : InfectiousPeriods \ {0},
     recovery_rate : RecoveryRates,
     mortality_rate : AnyPercentages]

SeirAnyInit ==
    /\ seir_in \in [params : AnyProfiles, num_days : 1..MaxDays]
    /\ seir_out = Pending
    /\ seir_report = NoReport
    /\ seir_prev = NoRun
    /\ HcIdle
    /\ GsIdle
    /\ VcIdle
    /\ AppIdle

\* the runs of calculate_infection_progression on profiles of any percentage
SpecSeirAny == SeirAnyInit /\ [][SeirNext]_vars

\* C22: every percentage is clamped to [0, 100] where it is used in a ratio:
\* for any value handed over, the daily fractions beta and mu of a run lie in
\* [0, 1].
InvC22_FractionsClamped ==
    (SeirDone /\ seir_out.err = "none") =>
       /\ RatLe(Zero, seir_beta(seir_in.params))
       /\ RatLe(seir_beta(seir_in.params), One)
       /\ RatLe(Zero, seir_mu(seir_in.params))
       /\ RatLe(seir_mu(seir_in.params), One)
HcDone == hc_out.err \notin {"pending", "idle"}

seir_total(row) ==
    RatAdd(RatAdd(RatAdd(RatAdd(row.Susceptible, row.Exposed), row.Infected),
                  row.Recovered),
           row.Deceased)

\* C1: with both periods positive and a horizon of at least one day the run
\* returns exactly num_days records, and S + E + I + R + D = N on every day.
InvC1_Conservation ==
    (/\ SeirDone
     /\ seir_in.params.incubation_period > 0
     /\ seir_in.params.infectious_period > 0
     /\ seir_in.num_days >= 1)
    => /\ seir_out.err = "none"
       /\ Len(seir_out.rows) = seir_in.num_days
       /\ \A t \in 1..Len(seir_out.rows) :
             RatEq(seir_total(seir_out.rows[t]), RatOfInt(N))

\* a run of three days or more in which infection has spread and killed
WitC1_Conservation ==
    /\ SeirDone
    /\ seir_out.err = "none"
    /\ seir_in.num_days >= 3
    /\ seir_in.params.transmission_rate = 50
    /\ seir_in.params.infectious_period = 14
    /\ RatLt(Zero, seir_out.rows[3].Deceased)
    /\ RatLt(seir_out.rows[3].Susceptible, seir_out.rows[2].Susceptible)

\* x * (a / b) = y, for machine integers a and b > 0
RatScaledEq(x, a, b, y) == RatEq(RatMul(x, RatFrac(a, b)), y)

\* x * (a / b)
RatScaled(x, a, b) == RatMul(x, RatFrac(a, b))

\* C2: record 0 is (99700, 200, 100, 0, 0) and each later record follows from
\* the one before it alone by the explicit step:
\*   S[t-1] - S[t] = beta S[t-1] I[t-1] / N = new_exposed
\*   E[t] = E[t-1] + new_exposed - sigma E[t-1]
\*   I[t] = I[t-1] + sigma E[t-1] - gamma I[t-1]
\*   R[t] - R[t-1] = gamma I[t-1] (1 - mu),  D[t] - D[t-1] = gamma I[t-1] mu
InvC2_ExplicitStep ==
    (SeirDone /\ seir_out.err = "none") =>
       LET rows == seir_out.rows
           q == seir_in.params
       IN  /\ rows[1].Day = 0
           /\ RatEq(rows[1].Susceptible, RatOfInt(99700))
           /\ RatEq(rows[1].Exposed, RatOfInt(200))
           /\ RatEq(rows[1].Infected, RatOfInt(100))
           /\ RatEq(rows[1].Recovered, Zero)
           /\ RatEq(rows[1].Deceased, Zero)
           /\ \A t \in 2..Len(rows) :
                LET a == rows[t - 1]
                    b == rows[t]
                    new_exposed == RatSub(a.Susceptible, b.Susceptible)
                    new_infected ==
                        RatSub(RatAdd(a.Exposed, new_exposed), b.Exposed)
                IN  /\ b.Day = t - 1
                    /\ RatEq(RatMul(RatOfInt(100 * N), new_exposed),
                             RatMul(RatOfInt(q.transmission_rate),
                                    RatMul(a.Susceptible, a.Infected)))
                    /\ RatScaledEq(a.Exposed, 1, q.incubation_period,
                                   new_infected)
                    /\ RatScaledEq(a.Infected, 100 - q.mortality_rate,
                                   100 * q.infectious_period,
                                   RatSub(b.Recovered, a.Recovered))
                    /\ RatScaledEq(a.Infected, q.mortality_rate,
                                   100 * q.infectious_period,
                                   RatSub(b.Deceased, a.Deceased))
                    /\ RatEq(b.Infected,
                             RatSub(RatAdd(a.Infected, new_infected),
                                    RatScaled(a.Infected, 1, q.infectious_period)))

\* a run whose third step moves people through every compartment
WitC2_ExplicitStep ==
    /\ SeirDone
    /\ seir_out.err = "none"
    /\ seir_in.num_days >= 4
    /\ seir_in.params.transmission_rate = 100
    /\ seir_in.params.mortality_rate = 2
    /\ seir_in.params.incubation_period = 5
    /\ RatLt(seir_out.rows[4].Susceptible, seir_out.rows[3].Susceptible)
    /\ RatLt(seir_out.rows[3].Recovered, seir_out.rows[4].Recovered)
    /\ RatLt(seir_out.rows[3].Deceased, seir_out.rows[4].Deceased)

\* C3: for every horizon >= 0 each of the two projections returns exactly that
\* many records and raises nothing.
InvC3_AnyHorizon ==
    /\ (/\ SeirDone
        /\ seir_in.params.incubation_period > 0
        /\ seir_in.params.infectious_period > 0)
       => (seir_out.err = "none" /\ Len(seir_out.rows) = seir_in.num_days)
    /\ HcDone => (hc_out.err = "none" /\ Len(hc_out.rows) = hc_in.days)

seir_row_finite(row) ==
    /\ RatIsFinite(row.Susceptible)
    /\ RatIsFinite(row.Exposed)
    /\ RatIsFinite(row.Infected)
    /\ RatIsFinite(row.Recovered)
    /\ RatIsFinite(row.Deceased)

\* C4: a period of 0 makes the call raise (ZeroDivisionError, before any record
\* exists) and return no series; no returned series holds a non-finite value.
InvC4_ZeroPeriodFails ==
    SeirDone =>
       /\ (seir_in.params.incubation_period = 0
             \/ seir_in.params.infectious_period = 0)
          => (seir_out.err = "ZeroDivisionError" /\ seir_out.rows = <<>>)
       /\ \A t \in 1..Len(seir_out.rows) : seir_row_finite(seir_out.rows[t])

\* the call was made with an infectious period of 0 and a positive horizon
WitC4_ZeroPeriodFails ==
    /\ SeirDone
    /\ seir_in.params.infectious_period = 0
    /\ seir_in.params.incubation_period > 0
    /\ seir_in.num_days >= 2
    /\ seir_out.err = "ZeroDivisionError"

\* D[last] / sum(I) * 100, 0 for a sum of 0: the overall mortality rate of a
\* series of at least one record
overall_mortality_rate(rows) ==
    IF RatIsZero(infected_sum(rows)) THEN Zero
    ELSE RatMul(RatDiv(rows[Len(rows)].Deceased, infected_sum(rows)),
                RatOfInt(100))

\* the runs a and b differ in the mortality rate only, a's being the lower
mortality_raised(a, b) ==
    /\ a.in # <<>>
    /\ b.in # <<>>
    /\ a.in.params.mortality_rate < b.in.params.mortality_rate
    /\ a.in = with_mortality(b.in, a.in.params.mortality_rate)
    /\ a.out.err = "none"
    /\ b.out.err = "none"

\* the current run, in the shape of seir_prev
seir_current == [in |-> seir_in, out |-> seir_out, report |-> seir_report]

\* b's overall mortality, derived and as displayed, is not below a's
mortality_not_below(a, b) ==
    /\ RatLe(overall_mortality_rate(a.out.rows), overall_mortality_rate(b.out.rows))
    /\ RatLe(a.report.mortality_percentage, b.report.mortality_percentage)

\* C13: of two runs that differ only in mortality_rate, the one with the higher
\* mortality_rate has an overall mortality rate (deceased on the last day over
\* total cases, times 100) that is not lower.
InvC13_MortalityMonotone ==
    SeirDone =>
       /\ mortality_raised(seir_prev, seir_current)
            => mortality_not_below(seir_prev, seir_current)
       /\ mortality_raised(seir_current, seir_prev)
            => mortality_not_below(seir_current, seir_prev)

\* the mortality rate was raised from 2 to 100 on a run of three days or more,
\* and both the derived rate and the displayed death count rose
WitC13_MortalityMonotone ==
    /\ SeirDone
    /\ mortality_raised(seir_prev, seir_current)
    /\ seir_in.num_days >= 3
    /\ seir_prev.in.params.mortality_rate = 2
    /\ seir_in.params.mortality_rate = 100
    /\ RatLt(overall_mortality_rate(seir_prev.out.rows),
             overall_mortality_rate(seir_out.rows))
    /\ seir_prev.report.total_deceased < seir_report.total_deceased

\* C14: the overall mortality rate reported for a run is D[last] / total_cases
\* * 100 with total_cases the sum of I over all days, and 0 for a total of 0.
InvC14_ReportedMortality ==
    (SeirDone /\ seir_report.shown) =>
       RatEq(seir_report.mortality_percentage,
             overall_mortality_rate(seir_out.rows))

(***************************************************************************)
(* visualizations/healthcare_load.py                                       *)
(***************************************************************************)
\* population = country_info['population'] / 100000
population_units(country_info) == RatFrac(country_info.population, 100000)

\* the protection factor with the waning rate taken as a fraction, not a
\* percentage
protection_factor_waning_fraction(vaccine) ==
    RatMul(RatDiv(RatMul(RatOfInt(vaccine.effectiveness),
                         RatOfInt(vaccine.population_vaccinated)),
                  RatOfInt(100)),
           RatSub(One, RatOfInt(vaccine.waning_immunity_rate)))

\* one vaccine's protection_factor
protection_factor(vaccine) ==
    RatMul(RatDiv(RatMul(RatOfInt(vaccine.effectiveness),
                         RatOfInt(vaccine.population_vaccinated)),
                  RatOfInt(100)),
           RatSub(One, RatFrac(vaccine.waning_immunity_rate, 100)))

\* the sum of the protection factors, 0.0 for an empty list
RECURSIVE total_vaccination_effect(_)
total_vaccination_effect(vaccines) ==
    IF vaccines = <<>> THEN Zero
    ELSE RatAdd(total_vaccination_effect(SubSeq(vaccines, 1, Len(vaccines) - 1)),
                protection_factor(vaccines[Len(vaccines)]))

\* min(1.5, max(0.5, value / scale))
clamp_factor(value, scale) ==
    RatMin(RatFrac(15, 10), RatMax(RatFrac(5, 10), RatFrac(value, scale)))

density_factor(country_info) == clamp_factor(country_info.population_density, 500)

health_factor(country_info) ==
    clamp_factor(country_info.health_conditions_percentage, 25)

\* the reduction without its cap
vaccination_reduction_uncapped(vaccines) ==
    RatDiv(total_vaccination_effect(vaccines), RatOfInt(100))

vaccination_reduction(vaccines) ==
    RatMin(RatFrac(95, 100),
           RatDiv(total_vaccination_effect(vaccines), RatOfInt(100)))

adjusted_transmission(params, vaccines, country_info) ==
    RatMul(RatMul(RatMul(RatFrac(params.transmission_rate, 100),
                         density_factor(country_info)),
                  health_factor(country_info)),
           RatSub(One, vaccination_reduction(vaccines)))

recovery_rate_daily == RatFrac(1, 10)

severity_rate(vaccines, country_info) ==
    RatMul(RatMul(RatFrac(15, 100), health_factor(country_info)),
           RatSub(One, RatMul(vaccination_reduction(vaccines), RatFrac(7, 10))))

icu_rate(vaccines) ==
    RatMul(RatFrac(30, 100),
           RatSub(One, RatMul(vaccination_reduction(vaccines), RatFrac(8, 10))))

\* the ventilator share reduced by the factor of the severity rate (0.7)
ventilator_rate_as_severity(vaccines) ==
    RatMul(RatFrac(15, 100),
           RatSub(One, RatMul(vaccination_reduction(vaccines), RatFrac(7, 10))))

ventilator_rate(vaccines) ==
    RatMul(RatFrac(15, 100),
           RatSub(One, RatMul(vaccination_reduction(vaccines), RatFrac(8, 10))))

\* for _ in range(days): the case load is grown, then appended
RECURSIVE active_cases_loop(_, _, _, _)
active_cases_loop(cases, current_cases, days, growth) ==
    IF Len(cases) >= days THEN cases
    ELSE LET grown == RatMul(current_cases, growth)
         IN  active_cases_loop(Append(cases, grown), grown, days, growth)

\* the daily growth without the recovery term
active_cases_series_no_recovery(params, vaccines, country_info, days) ==
    active_cases_loop(<<>>,
                      RatMul(population_units(country_info),
                             adjusted_transmission(params, vaccines, country_info)),
                      days,
                      RatAdd(One, adjusted_transmission(params, vaccines,
                                                        country_info)))

active_cases_series(params, vaccines, country_info, days) ==
    LET adj == adjusted_transmission(params, vaccines, country_info)
    IN  active_cases_loop(<<>>,
                          RatMul(population_units(country_info), adj),
                          days,
                          RatSub(RatAdd(One, adj), recovery_rate_daily))

\* the capacity figure per population unit, not divided by 100
available_resource_per_unit(figure, country_info) ==
    RatMul(RatOfInt(figure), population_units(country_info))

\* the capacity figure scaled to the region: figure * (population / 100)
available_resource(figure, country_info) ==
    RatMul(RatOfInt(figure),
           RatDiv(population_units(country_info), RatOfInt(100)))

\* the record of day x - 1 (x counts from 1); clock is datetime.now()
hc_record(x, clock, beds, icu_beds, ventilators, severe_cases, icu, vent) ==
    [date |-> [now |-> clock, plus_days |-> x - 1],
     available_beds |-> beds,
     available_icu |-> icu_beds,
     available_ventilators |-> ventilators,
     required_beds |-> severe_cases,
     required_icu |-> RatMul(severe_cases, icu),
     required_ventilators |-> RatMul(severe_cases, vent)]

\* the columns of the DataFrame, row by row
RECURSIVE hc_rows(_, _, _, _, _, _, _, _, _)
hc_rows(rows, clock, beds, icu_beds, ventilators, active_cases, sev, icu, vent) ==
    IF Len(rows) >= Len(active_cases) THEN rows
    ELSE hc_rows(Append(rows,
                        hc_record(Len(rows) + 1, clock, beds, icu_beds, ventilators,
                                  RatMul(active_cases[Len(rows) + 1], sev),
                                  icu, vent)),
                 clock, beds, icu_beds, ventilators, active_cases, sev, icu, vent)

calculate_healthcare_metrics(params, vaccination_params, country_info, days, clock) ==
    [err |-> "none",
     rows |-> hc_rows(<<>>, clock,
                      available_resource(params.hospital_beds, country_info),
                      available_resource(params.icu_beds, country_info),
                      available_resource(params.ventilators, country_info),
                      active_cases_series(params, vaccination_params.vaccines,
                                          country_info, days),
                      severity_rate(vaccination_params.vaccines, country_info),
                      icu_rate(vaccination_params.vaccines),
                      ventilator_rate(vaccination_params.vaccines))]

(***************************************************************************)
(* Inputs of the healthcare projections.                                   *)
(***************************************************************************)
MaxHcDays == 2
MaxVaccines == 2
MaxClock == 1

HcTransmissionRates == {5, 20}
Effectiveness == {50, 100}
Coverage == {50, 100}
VaccineNames == <<"Vaccine 1", "Vaccine 2", "Vaccine 3", "Vaccine 4">>

HealthcareCapacities ==
    [hospital_beds : {20}, icu_beds : {5}, ventilators : {2},
     transmission_rate : HcTransmissionRates]

\* rows of the region table: (density, health) at, below and above the clamps
Regions ==
    { [country |-> "A", population |-> 1000000, population_density |-> 500,
       air_quality_index |-> 50, water_quality_index |-> 80,
       health_conditions_percentage |-> 25],
      [country |-> "B", population |-> 250000, population_density |-> 100,
       air_quality_index |-> 100, water_quality_index |-> 40,
       health_conditions_percentage |-> 50],
      [country |-> "C", population |-> 5000000, population_density |-> 1000,
       air_quality_index |-> 20, water_quality_index |-> 100,
       health_conditions_percentage |-> 10] }

\* the vaccines a user may have configured: (coverage, effectiveness, waning)
VaccineChoices == {<<50, 50, 0>>, <<50, 100, 50>>, <<100, 100, 0>>}

\* vaccine lists of up to MaxVaccines different entries, named by position
VaccineLists ==
    UNION { { [i \in 1..n |->
                 [name |-> VaccineNames[i],
                  population_vaccinated |-> f[i][1],
                  effectiveness |-> f[i][2],
                  waning_immunity_rate |-> f[i][3]]] :
              f \in { g \in [1..n -> VaccineChoices] :
                        \A i, j \in 1..n : i # j => g[i] # g[j] } } :
            n \in 0..MaxVaccines }

HcInputs ==
    [params : HealthcareCapacities,
     vaccination_params : [vaccines : VaccineLists],
     country_info : Regions,
     days : 0..MaxHcDays]

hc_call(in, clock) ==
    calculate_healthcare_metrics(in.params, in.vaccination_params,
                                 in.country_info, in.days, clock)

HcInit ==
    /\ hc_in \in HcInputs
    /\ hc_out = Pending
    /\ hc_prev = NoCall
    /\ now = 0
    /\ SeirIdle
    /\ GsIdle
    /\ VcIdle
    /\ AppIdle

\* display_healthcare_load: the projection of the configured inputs
HcRun ==
    /\ hc_out = Pending
    /\ hc_out' = hc_call(hc_in, now)
    /\ UNCHANGED <<hc_in, hc_prev, now, seir_vars, gs_vars, vc_vars, app_vars>>

\* time passes between two runs of the page
HcTick ==
    /\ hc_out # Pending
    /\ now < MaxClock
    /\ now' = now + 1
    /\ UNCHANGED <<hc_in, hc_out, hc_prev, seir_vars, gs_vars, vc_vars, app_vars>>

\* the page is run again with the same configuration
HcRecall ==
    /\ hc_out # Pending
    /\ hc_prev' = [in |-> hc_in, out |-> hc_out]
    /\ hc_out' = hc_call(hc_in, now)
    /\ UNCHANGED <<hc_in, now, seir_vars, gs_vars, vc_vars, app_vars>>

\* the inputs with vaccine i's field set to value
with_vaccine(in, i, field, value) ==
    [in EXCEPT !.vaccination_params.vaccines[i][field] = value]

\* one vaccine's coverage or effectiveness is raised, and the page run again
HcRaise ==
    /\ hc_out # Pending
    /\ \E i \in 1..Len(hc_in.vaccination_params.vaccines) :
       \E field \in {"effectiveness", "population_vaccinated"} :
       \E value \in Effectiveness \cup Coverage :
         /\ value > hc_in.vaccination_params.vaccines[i][field]
         /\ hc_in' = with_vaccine(hc_in, i, field, value)
         /\ hc_out' = hc_call(with_vaccine(hc_in, i, field, value), now)
    /\ hc_prev' = [in |-> hc_in, out |-> hc_out]
    /\ UNCHANGED <<now, seir_vars, gs_vars, vc_vars, app_vars>>

HcNext == HcRun \/ HcTick \/ HcRecall \/ HcRaise

SpecHc == HcInit /\ [][HcNext]_vars

\* C5: two calls with the same inputs return the same records in every
\* column, whenever they are made.  (Here for the healthcare projection: the
\* call before the current one had the same inputs.)
InvC5_Deterministic ==
    (HcDone /\ hc_prev # NoCall /\ hc_prev.in = hc_in)
    => hc_prev.out = hc_out

\* C8: the first record of the projection carries the initial case load
\* population_units * adjusted_transmission, i.e. its required_beds is that
\* load times the severity rate.
InvC8_InitialLoad ==
    (HcDone /\ hc_in.days >= 1) =>
       RatEq(hc_out.rows[1].required_beds,
             RatMul(RatMul(population_units(hc_in.country_info),
                           adjusted_transmission(hc_in.params,
                                                 hc_in.vaccination_params.vaccines,
                                                 hc_in.country_info)),
                    severity_rate(hc_in.vaccination_params.vaccines,
                                  hc_in.country_info)))

\* new is old with exactly one vaccine's effectiveness or coverage raised
vaccine_raised(old, new) ==
    /\ old.params = new.params
    /\ old.country_info = new.country_info
    /\ old.days = new.days
    /\ Len(old.vaccination_params.vaccines) = Len(new.vaccination_params.vaccines)
    /\ \E i \in 1..Len(old.vaccination_params.vaccines) :
       \E field \in {"effectiveness", "population_vaccinated"} :
          /\ new.vaccination_params.vaccines[i][field]
                > old.vaccination_params.vaccines[i][field]
          /\ new = with_vaccine(old, i, field,
                                new.vaccination_params.vaccines[i][field])

\* C9: with everything else fixed, raising one vaccine's effectiveness or
\* population_vaccinated never raises required_beds on any day.
InvC9_VaccinationMonotone ==
    (HcDone /\ hc_prev # NoCall /\ vaccine_raised(hc_prev.in, hc_in)) =>
       \A t \in 1..Len(hc_out.rows) :
          RatLe(hc_out.rows[t].required_beds, hc_prev.out.rows[t].required_beds)

\* a raise that lowered the second day's bed demand; the vaccine wanes
WitC9_VaccinationMonotone ==
    /\ HcDone
    /\ hc_prev # NoCall
    /\ vaccine_raised(hc_prev.in, hc_in)
    /\ hc_in.days >= 2
    /\ \E i \in 1..Len(hc_in.vaccination_params.vaccines) :
          hc_in.vaccination_params.vaccines[i].waning_immunity_rate > 0
    /\ RatLt(hc_out.rows[2].required_beds, hc_prev.out.rows[2].required_beds)

\* sum of effectiveness * population_vaccinated * (100 - waning), in 10^-6
RECURSIVE protection_millionths(_)
protection_millionths(vaccines) ==
    IF vaccines = <<>> THEN 0
    ELSE Head(vaccines).effectiveness * Head(vaccines).population_vaccinated
            * (100 - Head(vaccines).waning_immunity_rate)
         + protection_millionths(Tail(vaccines))

\* C10: vaccination_reduction = min(0.95, total_vaccination_effect / 100), the
\* total being the sum of effectiveness * population_vaccinated / 100 *
\* (1 - waning / 100); it lies in [0, 0.95].
InvC10_ReductionCapped ==
    HcDone =>
       LET r == vaccination_reduction(hc_in.vaccination_params.vaccines)
           m == protection_millionths(hc_in.vaccination_params.vaccines)
       IN  /\ RatLe(Zero, r)
           /\ RatLe(r, RatFrac(95, 100))
           /\ RatEq(r, IF m >= 950000 THEN RatFrac(95, 100)
                       ELSE RatFrac(m, 1000000))

\* two vaccines whose summed effect exceeds the cap
WitC10_ReductionCapped ==
    /\ HcDone
    /\ Len(hc_in.vaccination_params.vaccines) = 2
    /\ protection_millionths(hc_in.vaccination_params.vaccines) > 950000
    /\ hc_in.days >= 1

\* figure * total / per, of machine integers
scaled_figure(figure, total, per) ==
    RatDiv(RatOfInt(figure * total), RatOfInt(per))

InvC12_PerTenThousand ==
    HcDone =>
       \A t \in 1..Len(hc_out.rows) :
          /\ RatEq(hc_out.rows[t].available_beds,
                   scaled_figure(hc_in.params.hospital_beds,
                                 hc_in.country_info.population, 10000))
          /\ RatEq(hc_out.rows[t].available_icu,
                   scaled_figure(hc_in.params.icu_beds,
                                 hc_in.country_info.population, 10000))
          /\ RatEq(hc_out.rows[t].available_ventilators,
                   scaled_figure(hc_in.params.ventilators,
                                 hc_in.country_info.population, 10000))

\* adjusted_transmission of the configured projection
hc_adjusted ==
    adjusted_transmission(hc_in.params, hc_in.vaccination_params.vaccines,
                          hc_in.country_info)

\* C25: required_beds[t] = required_beds[t-1] * (1 + adjusted_transmission
\* - 0.10) for every day t >= 1; the series is strictly increasing when
\* adjusted_transmission > 0.10 and the initial load is positive, and
\* non-increasing when adjusted_transmission <= 0.10.
InvC25_GeometricLoad ==
    HcDone =>
       \A t \in 2..Len(hc_out.rows) :
          /\ RatEq(hc_out.rows[t].required_beds,
                   RatMul(hc_out.rows[t - 1].required_beds,
                          RatSub(RatAdd(One, hc_adjusted), RatFrac(10, 100))))
          /\ (RatLt(RatFrac(10, 100), hc_adjusted)
              /\ RatLt(Zero, hc_out.rows[1].required_beds))
             => RatLt(hc_out.rows[t - 1].required_beds,
                      hc_out.rows[t].required_beds)
          /\ RatLe(hc_adjusted, RatFrac(10, 100))
             => RatLe(hc_out.rows[t].required_beds,
                      hc_out.rows[t - 1].required_beds)

\* two days at adjusted_transmission = 0.15 behind a vaccine: the second
\* day's beds are 1.05 times the first day's
WitC25_GeometricLoad ==
    /\ HcDone
    /\ Len(hc_out.rows) = 2
    /\ hc_in.vaccination_params.vaccines # <<>>
    /\ RatEq(hc_adjusted, RatFrac(15, 100))
    /\ RatLt(Zero, hc_out.rows[1].required_beds)
    /\ RatEq(RatMul(hc_out.rows[2].required_beds, RatOfInt(100)),
             RatMul(hc_out.rows[1].required_beds, RatOfInt(105)))

\* C29: on every day required_ventilators <= required_icu <= required_beds,
\* and required_ventilators is exactly half of required_icu, for every
\* vaccine configuration.
InvC29_ResourceOrder ==
    HcDone =>
       \A t \in 1..Len(hc_out.rows) :
          /\ RatLe(hc_out.rows[t].required_ventilators, hc_out.rows[t].required_icu)
          /\ RatLe(hc_out.rows[t].required_icu, hc_out.rows[t].required_beds)
          /\ RatEq(RatMul(hc_out.rows[t].required_ventilators, RatOfInt(2)),
                   hc_out.rows[t].required_icu)

\* a day behind two vaccines with a positive load: 0 < ventilators < icu < beds
WitC29_ResourceOrder ==
    /\ HcDone
    /\ Len(hc_in.vaccination_params.vaccines) = 2
    /\ \E t \in 1..Len(hc_out.rows) :
          /\ RatLt(Zero, hc_out.rows[t].required_ventilators)
          /\ RatLt(hc_out.rows[t].required_ventilators, hc_out.rows[t].required_icu)
          /\ RatLt(hc_out.rows[t].required_icu, hc_out.rows[t].required_beds)

(***************************************************************************)
(* visualizations/world_heatmap.py: the definitions the module binds (the  *)
(* later of the two calculate_global_spread / calculate_severity_index).   *)
(* A region table is a sequence of rows; a row is a function from column   *)
(* names to values; a column assignment is made row by row.                *)
(***************************************************************************)
NaN == [neg |-> FALSE, n |-> <<>>, d |-> <<>>]

\* Series.clip(lo, hi): NaN stays NaN
clip(x, lo, hi) == IF RatIsNaN(x) THEN x ELSE RatMin(hi, RatMax(lo, x))

\* data[col].max(): NaN for a table without rows
column_max(data, col) ==
    IF data = <<>> THEN NaN
    ELSE RatOfInt(CHOOSE m \in {data[i][col] : i \in 1..Len(data)} :
                     \A i \in 1..Len(data) : data[i][col] <= m)

\* data[col] / data[col].max() at one row; 0 / 0 is NaN
normalized(row, data, col) == RatDiv(RatOfInt(row[col]), column_max(data, col))

\* the case total with every variant counted as at least one case
RECURSIVE total_cases_with_minimum(_)
total_cases_with_minimum(variants) ==
    IF variants = <<>> THEN 0
    ELSE (IF Head(variants).daily_cases = 0 THEN 1
          ELSE Head(variants).daily_cases)
         + total_cases_with_minimum(Tail(variants))

\* sum(v['daily_cases'] for v in variants)
RECURSIVE total_cases(_)
total_cases(variants) ==
    IF variants = <<>> THEN 0
    ELSE Head(variants).daily_cases + total_cases(Tail(variants))

\* variant['daily_cases'] / total_cases if total_cases > 0 else 0
prevalence(variant, total) ==
    IF total > 0 THEN RatFrac(variant.daily_cases, total) ELSE Zero

variant_impact(variant) ==
    RatMul(RatMul(RatMul(RatFrac(variant.daily_cases, 1000),
                         RatFrac(variant.severity, 10)),
                  RatFrac(variant.mortality_rate, 100)),
           RatSub(One, RatFrac(variant.recovery_rate, 100)))

\* total_impact over the variants vs, total the case count of the whole list
RECURSIVE total_impact(_, _)
total_impact(vs, total) ==
    IF vs = <<>> THEN Zero
    ELSE RatAdd(total_impact(SubSeq(vs, 1, Len(vs) - 1), total),
                RatMul(variant_impact(vs[Len(vs)]),
                       prevalence(vs[Len(vs)], total)))

\* the multiplier 1 + total_impact alone, not applied to the base rate
calculate_variant_impact_multiplier(variants, base_transmission) ==
    IF variants = <<>> THEN One
    ELSE RatAdd(One, total_impact(variants, total_cases(variants)))

calculate_variant_impact(variants, base_transmission) ==
    IF variants = <<>> THEN RatOfInt(base_transmission)
    ELSE RatMul(RatOfInt(base_transmission),
                RatAdd(One, total_impact(variants, total_cases(variants))))

\* the effectiveness summed without the prevalence weights
RECURSIVE total_effectiveness_unweighted(_, _)
total_effectiveness_unweighted(vs, total) ==
    IF vs = <<>> THEN Zero
    ELSE RatAdd(total_effectiveness_unweighted(SubSeq(vs, 1, Len(vs) - 1), total),
                RatFrac(vs[Len(vs)].vaccine_effectiveness, 100))

RECURSIVE total_effectiveness(_, _)
total_effectiveness(vs, total) ==
    IF vs = <<>> THEN Zero
    ELSE RatAdd(total_effectiveness(SubSeq(vs, 1, Len(vs) - 1), total),
                RatMul(RatFrac(vs[Len(vs)].vaccine_effectiveness, 100),
                       prevalence(vs[Len(vs)], total)))

\* the effectiveness scaled by the first vaccine's own effectiveness (the
\* docstring's Base_Effectiveness)
calculate_vaccine_effectiveness_scaled(variants, vaccination_params) ==
    IF variants = <<>> \/ vaccination_params.vaccines = <<>> THEN Zero
    ELSE RatMul(RatFrac(vaccination_params.vaccines[1].effectiveness, 100),
                total_effectiveness(variants, total_cases(variants)))

calculate_vaccine_effectiveness(variants, vaccination_params) ==
    IF variants = <<>> \/ vaccination_params.vaccines = <<>> THEN Zero
    ELSE total_effectiveness(variants, total_cases(variants))

\* data['risk_score'] at one row
risk_score(row, data) ==
    clip(RatAdd(RatAdd(RatAdd(
            RatMul(RatFrac(3, 10), normalized(row, data, "population_density")),
            RatMul(RatFrac(2, 10), normalized(row, data, "air_quality_index"))),
            RatMul(RatFrac(2, 10), normalized(row, data, "water_quality_index"))),
            RatMul(RatFrac(3, 10),
                   normalized(row, data, "health_conditions_percentage"))),
         Zero, One)

spread_transmission(params, variants) ==
    IF variants # <<>>
    THEN calculate_variant_impact(variants, params.transmission_rate)
    ELSE RatOfInt(params.transmission_rate)

\* a vaccination_params dictionary with its 'vaccines' key is truthy
vaccine_protection(variants, vaccination_params) ==
    IF variants # <<>>
    THEN calculate_vaccine_effectiveness(variants, vaccination_params)
    ELSE Zero

\* the infection rate as the product alone
infection_rate_unclipped(risk, params, variants, vaccination_params) ==
    RatMul(RatMul(RatMul(risk,
                         RatDiv(spread_transmission(params, variants),
                                RatOfInt(100))),
                  RatSub(One, vaccine_protection(variants, vaccination_params))),
           RatAdd(One, RatFrac(params.mutation_rate, 100)))

\* data['infection_rate'] at one row whose risk score is risk
infection_rate(risk, params, variants, vaccination_params) ==
    clip(RatMul(RatMul(RatMul(risk,
                              RatDiv(spread_transmission(params, variants),
                                     RatOfInt(100))),
                       RatSub(One, vaccine_protection(variants,
                                                      vaccination_params))),
                RatAdd(One, RatFrac(params.mutation_rate, 100))),
         Zero, One)

\* sum((v['severity'] / 10) * (v['daily_cases'] / 1000) for v in variants)
RECURSIVE severity_variant_impact(_)
severity_variant_impact(vs) ==
    IF vs = <<>> THEN Zero
    ELSE RatAdd(severity_variant_impact(SubSeq(vs, 1, Len(vs) - 1)),
                RatMul(RatFrac(vs[Len(vs)].severity, 10),
                       RatFrac(vs[Len(vs)].daily_cases, 1000)))

base_severity(row, data) ==
    clip(RatAdd(RatAdd(
            RatMul(RatFrac(4, 10), normalized(row, data, "population_density")),
            RatMul(RatFrac(3, 10),
                   RatFrac(row.health_conditions_percentage, 100))),
            RatMul(RatFrac(3, 10), row.infection_rate)),
         Zero, One)

\* the severity index of one row of data (which carries infection_rate)
calculate_severity_index(row, data, variants) ==
    IF variants = <<>> THEN RatMul(base_severity(row, data), RatOfInt(10))
    ELSE RatMul(clip(RatMul(base_severity(row, data),
                            RatAdd(One, severity_variant_impact(variants))),
                     Zero, One),
                RatOfInt(10))

\* f'{variant_name}_cases' for the names the model uses
variant_column(variant_name) ==
    CASE variant_name = "Variant 1" -> "Variant 1_cases"
      [] variant_name = "Variant 2" -> "Variant 2_cases"
      [] variant_name = "Variant 3" -> "Variant 3_cases"
      [] variant_name = "active" -> "active_cases"

\* np.floor(population * infection_rate * (daily_cases / 1000) * (severity / 10))
variant_cases(row, variant) ==
    RatFloor(RatMul(RatMul(RatMul(RatOfInt(row.population), row.infection_rate),
                           RatFrac(variant.daily_cases, 1000)),
                    RatFrac(variant.severity, 10)))

\* data[column] = value at one row: a new column, or an old one replaced
assign(row, column, value) == (column :> value) @@ row

\* data['risk_score'] = ...: rows holds the rows already assigned
RECURSIVE with_risk_score(_, _)
with_risk_score(rows, data) ==
    IF Len(rows) >= Len(data) THEN rows
    ELSE with_risk_score(
            Append(rows, assign(data[Len(rows) + 1], "risk_score",
                                risk_score(data[Len(rows) + 1], data))),
            data)

\* data['infection_rate'] = ...
RECURSIVE with_infection_rate(_, _, _, _, _)
with_infection_rate(rows, data, params, variants, vaccination_params) ==
    IF Len(rows) >= Len(data) THEN rows
    ELSE with_infection_rate(
            Append(rows, assign(data[Len(rows) + 1], "infection_rate",
                                infection_rate(data[Len(rows) + 1].risk_score,
                                               params, variants,
                                               vaccination_params))),
            data, params, variants, vaccination_params)

\* data[f'{variant_name}_cases'] = ... for one variant
RECURSIVE with_variant_column(_, _, _)
with_variant_column(rows, data, variant) ==
    IF Len(rows) >= Len(data) THEN rows
    ELSE with_variant_column(
            Append(rows, assign(data[Len(rows) + 1], variant_column(variant.name),
                                variant_cases(data[Len(rows) + 1], variant))),
            data, variant)

\* for variant in variants: ...
RECURSIVE with_variant_cases(_, _)
with_variant_cases(data, vs) ==
    IF vs = <<>> THEN data
    ELSE with_variant_cases(with_variant_column(<<>>, data, Head(vs)), Tail(vs))

\* the product rounded to the nearest integer instead of down
active_cases_nearest(row) ==
    RatFloor(RatAdd(RatMul(RatOfInt(row.population), row.infection_rate),
                    RatFrac(1, 2)))

\* np.floor(population * infection_rate).astype(int) at one row
active_cases(row) ==
    RatFloor(RatMul(RatOfInt(row.population), row.infection_rate))

\* data['active_cases'] = np.floor(population * infection_rate).astype(int)
RECURSIVE with_active_cases(_, _)
with_active_cases(rows, data) ==
    IF Len(rows) >= Len(data) THEN rows
    ELSE with_active_cases(
            Append(rows, assign(data[Len(rows) + 1], "active_cases",
                                active_cases(data[Len(rows) + 1]))),
            data)

\* data['severity_index'] = calculate_severity_index(data, variants)
RECURSIVE with_severity_index(_, _, _)
with_severity_index(rows, data, variants) ==
    IF Len(rows) >= Len(data) THEN rows
    ELSE with_severity_index(
            Append(rows, assign(data[Len(rows) + 1], "severity_index",
                                calculate_severity_index(data[Len(rows) + 1],
                                                         data, variants))),
            data, variants)

\* .astype(int) raises on a column holding a NaN or an infinity
cast_error(data) ==
    \E i \in 1..Len(data) : ~RatIsFinite(data[i].infection_rate)

\* the table from the infection rates on
spread_cases(data, variants) ==
    IF cast_error(data)
    THEN [err |-> "IntCastingNaNError", rows |-> <<>>]
    ELSE [err |-> "none",
          rows |-> with_severity_index(<<>>,
                       with_active_cases(<<>>, with_variant_cases(data, variants)),
                       variants)]

calculate_global_spread(params, countries_data, variants, vaccination_params) ==
    spread_cases(with_infection_rate(<<>>, with_risk_score(<<>>, countries_data),
                                     params, variants, vaccination_params),
                 variants)

(***************************************************************************)
(* Inputs of the global spread.                                            *)
(***************************************************************************)
MaxRegions == 2
MaxVariants == 2

\* a region whose every attribute is 0
ZeroRegion ==
    [country |-> "Z", population |-> 0, population_density |-> 0,
     air_quality_index |-> 0, water_quality_index |-> 0,
     health_conditions_percentage |-> 0]

\* tables of up to MaxRegions rows, one row per country
RegionTables ==
    UNION { { t \in [1..n -> Regions \cup {ZeroRegion}] :
                \A i, j \in 1..n : i # j => t[i] # t[j] } :
            n \in 0..MaxRegions }

SpreadProfiles == [transmission_rate : {50, 100}, mutation_rate : {0, 100}]

\* the variants a user may have added; the names are unique in a list
VariantChoices ==
    { [name |-> "Variant 1", daily_cases |-> 10, severity |-> 5,
       mortality_rate |-> 2, recovery_rate |-> 95, vaccine_effectiveness |-> 50],
      [name |-> "Variant 2", daily_cases |-> 5000, severity |-> 10,
       mortality_rate |-> 100, recovery_rate |-> 0, vaccine_effectiveness |-> 0],
      [name |-> "Variant 3", daily_cases |-> 0, severity |-> 10,
       mortality_rate |-> 50, recovery_rate |-> 10,
       vaccine_effectiveness |-> 100],
      [name |-> "active", daily_cases |-> 0, severity |-> 1,
       mortality_rate |-> 0, recovery_rate |-> 100,
       vaccine_effectiveness |-> 100] }

VariantLists ==
    UNION { { v \in [1..n -> VariantChoices] :
                \A i, j \in 1..n : i # j => v[i] # v[j] } :
            n \in 0..MaxVariants }

SpreadVaccineLists ==
    { <<>>,
      <<[name |-> "Vaccine 1", population_vaccinated |-> 50,
         effectiveness |-> 100, waning_immunity_rate |-> 0]>> }

GsInputs ==
    [params : SpreadProfiles,
     countries_data : RegionTables,
     variants : VariantLists,
     vaccination_params : [vaccines : SpreadVaccineLists]]

GsInit ==
    /\ gs_in \in GsInputs
    /\ gs_out = Pending
    /\ SeirIdle
    /\ HcIdle
    /\ VcIdle
    /\ AppIdle

\* the caller's table when the columns are assigned to countries_data itself,
\* as the first definition of calculate_global_spread (lines 241-301) does
countries_data_after_in_place(countries_data, out) ==
    IF out.err = "none" THEN out.rows ELSE countries_data

\* the caller's table after the call: data = countries_data.copy() (a deep
\* copy) receives every column assignment, countries_data none
countries_data_after(countries_data, out) == countries_data

\* display_global_map: the spread of the configured inputs; gs_in holds the
\* caller's objects, which the call receives by reference
GsRun ==
    /\ gs_out = Pending
    /\ gs_out' = calculate_global_spread(gs_in.params, gs_in.countries_data,
                                         gs_in.variants, gs_in.vaccination_params)
    /\ gs_in' = [gs_in EXCEPT !.countries_data =
                     countries_data_after(gs_in.countries_data, gs_out')]
    /\ UNCHANGED <<seir_vars, hc_vars, vc_vars, app_vars>>

GsNext == GsRun

SpecSpread == GsInit /\ [][GsNext]_vars

GsDone == gs_out.err \notin {"pending", "idle"}

\* C6: an empty region table makes calculate_global_spread fail with an error;
\* no table is returned from an undefined column maximum.
InvC6_EmptyTableFails ==
    (GsDone /\ gs_in.countries_data = <<>>) => gs_out.err # "none"

\* C7: for a non-empty region table every row of the result has
\* infection_rate in [0, 1] and severity_index in [0, 10].
InvC7_Clamped ==
    (GsDone /\ gs_in.countries_data # <<>>) =>
       \A i \in 1..Len(gs_out.rows) :
          /\ RatLe(Zero, gs_out.rows[i].infection_rate)
          /\ RatLe(gs_out.rows[i].infection_rate, One)
          /\ RatLe(Zero, gs_out.rows[i].severity_index)
          /\ RatLe(gs_out.rows[i].severity_index, RatOfInt(10))

\* transmission and mutation at 100 with the high-severity variant: the
\* product exceeds 1 and the returned rate and index sit at their upper bounds
WitC7_Clamped ==
    /\ GsDone
    /\ gs_out.err = "none"
    /\ Len(gs_out.rows) = 2
    /\ gs_in.params.transmission_rate = 100
    /\ gs_in.params.mutation_rate = 100
    /\ \E k \in 1..Len(gs_in.variants) : gs_in.variants[k].severity = 10
    /\ \E i \in 1..2 :
          /\ RatLt(One, infection_rate_unclipped(gs_out.rows[i].risk_score,
                                                 gs_in.params, gs_in.variants,
                                                 gs_in.vaccination_params))
          /\ RatEq(gs_out.rows[i].infection_rate, One)
          /\ RatEq(gs_out.rows[i].severity_index, RatOfInt(10))

\* k = floor(x) for a finite x >= 0: k <= x < k + 1
is_floor_of(k, x) ==
    /\ k \in Nat
    /\ RatLe(RatOfInt(k), x)
    /\ RatLt(x, RatOfInt(k + 1))

InvC20_VariantColumns ==
    (GsDone /\ gs_out.err = "none" /\ gs_in.variants # <<>>) =>
       \A k \in 1..Len(gs_in.variants) :
          \A i \in 1..Len(gs_out.rows) :
             is_floor_of(gs_out.rows[i][variant_column(gs_in.variants[k].name)],
                         RatMul(RatMul(RatMul(
                                    RatOfInt(gs_out.rows[i].population),
                                    gs_out.rows[i].infection_rate),
                                    RatFrac(gs_in.variants[k].daily_cases, 1000)),
                                RatFrac(gs_in.variants[k].severity, 10)))

InvC30_VariantWithinActive ==
    (GsDone /\ gs_out.err = "none") =>
       \A k \in 1..Len(gs_in.variants) :
          \A i \in 1..Len(gs_out.rows) :
             (/\ gs_in.variants[k].daily_cases >= 0
              /\ gs_in.variants[k].severity \in 1..10)
             => gs_out.rows[i][variant_column(gs_in.variants[k].name)]
                   <= gs_out.rows[i].active_cases

(***************************************************************************)
(* The variant compositor on its own: calculate_variant_impact and         *)
(* calculate_vaccine_effectiveness of one configuration.                   *)
(***************************************************************************)
BaseTransmissions == {0, 50, 100}

VcInputs ==
    [variants : VariantLists,
     base_transmission : BaseTransmissions,
     vaccination_params : [vaccines : VaccineLists]]

vc_call(in) ==
    [err |-> "none",
     rows |-> <<>>,
     transmission |-> calculate_variant_impact(in.variants, in.base_transmission),
     effectiveness |-> calculate_vaccine_effectiveness(in.variants,
                                                       in.vaccination_params)]

VcInit ==
    /\ vc_in \in VcInputs
    /\ vc_out = Pending
    /\ vc_prev = NoCall
    /\ SeirIdle
    /\ HcIdle
    /\ GsIdle
    /\ AppIdle

\* the two functions evaluated on the configuration
VcRun ==
    /\ vc_out = Pending
    /\ vc_out' = vc_call(vc_in)
    /\ UNCHANGED <<vc_in, vc_prev, seir_vars, hc_vars, gs_vars, app_vars>>

\* the configuration with one more variant at the end of the list
with_variant(in, variant) == [in EXCEPT !.variants = Append(@, variant)]

\* display_variant_params: a variant of a new name is appended
VcAddVariant ==
    /\ vc_out # Pending
    /\ Len(vc_in.variants) < MaxVariants
    /\ \E variant \in VariantChoices :
         /\ \A k \in 1..Len(vc_in.variants) : vc_in.variants[k].name # variant.name
         /\ vc_in' = with_variant(vc_in, variant)
         /\ vc_out' = vc_call(with_variant(vc_in, variant))
    /\ vc_prev' = [in |-> vc_in, out |-> vc_out]
    /\ UNCHANGED <<seir_vars, hc_vars, gs_vars, app_vars>>

\* the configuration with another vaccine list
with_vaccines(in, vaccines) == [in EXCEPT !.vaccination_params.vaccines = vaccines]

\* display_vaccination_params: the vaccine list is edited
VcSetVaccines ==
    /\ vc_out # Pending
    /\ \E vaccines \in VaccineLists \ {vc_in.vaccination_params.vaccines} :
         /\ vc_in' = with_vaccines(vc_in, vaccines)
         /\ vc_out' = vc_call(with_vaccines(vc_in, vaccines))
    /\ vc_prev' = [in |-> vc_in, out |-> vc_out]
    /\ UNCHANGED <<seir_vars, hc_vars, gs_vars, app_vars>>

VcNext == VcRun \/ VcAddVariant \/ VcSetVaccines

SpecCompositor == VcInit /\ [][VcNext]_vars

VcDone == vc_out.err \notin {"pending", "idle"}

\* C15: for an empty variant list calculate_variant_impact returns
\* base_transmission unchanged and calculate_vaccine_effectiveness returns 0,
\* whatever the base rate and the vaccine configuration.
InvC15_NoVariants ==
    (VcDone /\ vc_in.variants = <<>>) =>
       /\ RatEq(vc_out.transmission, RatOfInt(vc_in.base_transmission))
       /\ RatIsZero(vc_out.effectiveness)

\* no variants, a base rate of 50 and two vaccines configured
WitC15_NoVariants ==
    /\ VcDone
    /\ vc_in.variants = <<>>
    /\ vc_in.base_transmission = 50
    /\ Len(vc_in.vaccination_params.vaccines) = 2

\* every variant of the list has daily_cases = 0
no_cases(variants) == \A k \in 1..Len(variants) : variants[k].daily_cases = 0

\* the current configuration is the one before it with one variant appended
variant_appended ==
    /\ vc_prev # NoCall
    /\ vc_in.variants # <<>>
    /\ vc_in = with_variant(vc_prev.in, vc_in.variants[Len(vc_in.variants)])

\* C16: appending a variant with daily_cases = 0 to a non-empty list leaves
\* the result of calculate_variant_impact unchanged, and a list whose variants
\* all have daily_cases = 0 gives the base rate.
InvC16_ZeroCasesNoImpact ==
    VcDone =>
       /\ (/\ variant_appended
           /\ vc_in.variants[Len(vc_in.variants)].daily_cases = 0
           /\ vc_prev.in.variants # <<>>)
          => RatEq(vc_out.transmission, vc_prev.out.transmission)
       /\ (vc_in.variants # <<>> /\ no_cases(vc_in.variants))
          => RatEq(vc_out.transmission, RatOfInt(vc_in.base_transmission))

\* a variant without cases was appended to a variant that raises the rate
WitC16_ZeroCasesNoImpact ==
    /\ VcDone
    /\ variant_appended
    /\ Len(vc_in.variants) = 2
    /\ vc_in.variants[2].daily_cases = 0
    /\ vc_in.variants[2].severity = 10
    /\ vc_in.base_transmission = 50
    /\ RatLt(RatOfInt(50), vc_prev.out.transmission)
    /\ RatEq(vc_out.transmission, vc_prev.out.transmission)

Pages ==
    {"Home", "Infection Progression", "Global Spread Map",
     "Healthcare System Load", "Variant Tracking"}

get_required_sections(page) ==
    CASE page = "Infection Progression" -> {"pathogen"}
      [] page = "Global Spread Map" -> {"pathogen", "variants"}
      [] page = "Healthcare System Load" -> {"pathogen", "healthcare", "vaccination"}
      [] page = "Variant Tracking" -> {"pathogen", "variants"}
      [] OTHER -> {}

\* if key not in st.session_state: st.session_state.key = value
setdefault(ss, key, value) == IF key \in DOMAIN ss THEN ss ELSE assign(ss, key, value)

\* st.session_state.get(key, default)
session_get(ss, key, default) == IF key \in DOMAIN ss THEN ss[key] ELSE default

init_show_visualization(ss) == setdefault(ss, "show_visualization", TRUE)

init_previous_page(ss) == setdefault(ss, "previous_page", "Home")

\* no widget and no statement of the application stores the key 'nav_page'
current_page(ss) == session_get(ss, "nav_page", "Home")

reset_show_visualization(ss) ==
    assign(IF ss.previous_page = "Home" /\ current_page(ss) # "Home"
           THEN assign(ss, "show_visualization", FALSE)
           ELSE ss,
           "previous_page", current_page(ss))

\* the list keys: each [] of the source is one list object
init_lists(ss) ==
    setdefault(setdefault(setdefault(ss, "variants", <<>>),
                          "vaccination_params", [vaccines |-> "own"]),
               "temp_vaccines", "temp")

initialize_session_state(ss) ==
    init_lists(reset_show_visualization(
        init_previous_page(init_show_visualization(ss))))

\* any(v['name'] == name for v in entries)
name_present(entries, name) == \E i \in 1..Len(entries) : entries[i].name = name

\* display_variant_params with "Add New Variant" ticked
add_variant(ss, variant) ==
    IF name_present(ss.variants, variant.name) THEN ss
    ELSE assign(ss, "variants", Append(ss.variants, variant))

\* st.session_state.vaccination_params['vaccines']
session_vaccines(ss, heap) == heap[ss.vaccination_params.vaccines]

\* the list objects when the new vaccine is appended whatever its name
lists_after_add_unchecked(ss, heap, vaccine) ==
    [heap EXCEPT ![ss.temp_vaccines] = Append(@, vaccine)]

\* display_vaccination_params with "Add New Vaccine" ticked: the list objects
lists_after_add(ss, heap, vaccine) ==
    IF name_present(session_vaccines(ss, heap), vaccine.name) THEN heap
    ELSE [heap EXCEPT ![ss.temp_vaccines] = Append(@, vaccine)]

\* ... and the session: vaccination_params['vaccines'] = temp_vaccines makes
\* both keys refer to one list object
session_after_add(ss, heap, vaccine) ==
    IF name_present(session_vaccines(ss, heap), vaccine.name) THEN ss
    ELSE assign(ss, "vaccination_params", [vaccines |-> ss.temp_vaccines])

\* entries.pop(idx) (idx counted from 1 here)
list_pop(entries, idx) ==
    SubSeq(entries, 1, idx - 1) \o SubSeq(entries, idx + 1, Len(entries))

\* st.session_state.vaccination_params['vaccines'].pop(idx)
lists_after_remove(ss, heap, idx) ==
    [heap EXCEPT ![ss.vaccination_params.vaccines] = list_pop(@, idx)]

(***************************************************************************)
(* The file data/country_data.csv and its readers.                         *)
(***************************************************************************)
required_columns ==
    {"country", "continent", "population", "population_density",
     "air_quality_index", "water_quality_index", "age_distribution_young",
     "age_distribution_adult", "age_distribution_elderly", "gender_ratio",
     "health_conditions_percentage"}

\* the file initialize_default_data writes: create_top_50_countries()
default_file == [exists |-> TRUE, columns |-> required_columns, rows |-> "top 50"]

\* states of the file: absent, the default, another complete table, and
\* tables lacking one column
FileStates ==
    {NoFile, default_file,
     [exists |-> TRUE, columns |-> required_columns, rows |-> "other"],
     [exists |-> TRUE, columns |-> required_columns \ {"gender_ratio"},
      rows |-> "other"],
     [exists |-> TRUE, columns |-> required_columns \ {"population_density"},
      rows |-> "other"]}

\* CountryDataHandler.load_country_data: the file after the call
handler_file_after(file) ==
    IF ~file.exists \/ ~(required_columns \subseteq file.columns)
    THEN default_file
    ELSE file

\* the columns display_global_map and calculate_global_spread index
spread_columns ==
    {"country", "population", "population_density", "air_quality_index",
     "water_quality_index", "health_conditions_percentage"}

\* the columns load_country_data of healthcare_load.py indexes
world_columns == required_columns \ {"country", "continent"}

NoTable == [columns |-> {}, rows |-> "none"]

\* pd.read_csv('data/country_data.csv') in a page: the table handed on,
\* needed the columns the page indexes
page_table(file, needed) ==
    IF ~file.exists THEN [err |-> "FileNotFoundError", table |-> NoTable]
    ELSE IF ~(needed \subseteq file.columns)
    THEN [err |-> "KeyError", table |-> NoTable]
    ELSE [err |-> "none",
          table |-> [columns |-> file.columns, rows |-> file.rows]]

\* the visualization of a page other than Home
display_page(page, file) ==
    CASE page = "Global Spread Map" -> page_table(file, spread_columns)
      [] page = "Healthcare System Load" -> page_table(file, world_columns)
      [] OTHER -> [err |-> "none", table |-> NoTable]

\* what main renders after the parameter inputs, on the session ss
rendered(ss, page, file, act) ==
    IF page = "Home"
    THEN [page |-> page, view |-> "home", err |-> "none", table |-> NoTable,
          file |-> file, act |-> act]
    ELSE IF ~ss.show_visualization
    THEN [page |-> page, view |-> "notice", err |-> "none", table |-> NoTable,
          file |-> file, act |-> act]
    ELSE [page |-> page,
          view |-> IF display_page(page, file).err = "none"
                   THEN "visualization" ELSE "error",
          err |-> display_page(page, file).err,
          table |-> display_page(page, file).table,
          file |-> file, act |-> act]

(***************************************************************************)
(* Interactions.                                                           *)
(***************************************************************************)
MaxEntries == 3

SessionVariants ==
    { v \in VariantChoices : v.name \in {"Variant 1", "Variant 2"} }

SessionVaccines ==
    [name : {"Vaccine 1", "Vaccine 2"}, population_vaccinated : {50, 100},
     effectiveness : {95}, waning_immunity_rate : {5}]

NoAct == [kind |-> "none"]

AppInit ==
    /\ session_state = <<>>
    /\ lists = NoLists
    /\ ui = NoUi
    /\ csv_file \in FileStates
    /\ SeirIdle
    /\ HcIdle
    /\ GsIdle
    /\ VcIdle

\* the browser opens the application: the first run of main, on Home
UiOpen ==
    /\ ui = NoUi
    /\ session_state' = initialize_session_state(session_state)
    /\ ui' = rendered(initialize_session_state(session_state), "Home",
                      csv_file, NoAct)
    /\ UNCHANGED <<lists, csv_file, seir_vars, hc_vars, gs_vars, vc_vars>>

\* the user selects another page in the sidebar radio
UiSelectPage ==
    /\ ui # NoUi
    /\ \E page \in Pages \ {ui.page} :
         /\ session_state' = initialize_session_state(session_state)
         /\ ui' = rendered(initialize_session_state(session_state), page,
                           csv_file, NoAct)
    /\ UNCHANGED <<lists, csv_file, seir_vars, hc_vars, gs_vars, vc_vars>>

\* the user submits the form with "Add New Variant" ticked
UiAddVariant ==
    /\ ui # NoUi
    /\ "variants" \in get_required_sections(ui.page)
    /\ Len(session_state.variants) < MaxEntries
    /\ \E variant \in SessionVariants :
         /\ session_state' =
               add_variant(initialize_session_state(session_state), variant)
         /\ ui' = rendered(add_variant(initialize_session_state(session_state),
                                       variant),
                           ui.page, csv_file,
                           [kind |-> "add_variant", entry |-> variant])
    /\ UNCHANGED <<lists, csv_file, seir_vars, hc_vars, gs_vars, vc_vars>>

\* the user submits the form with "Add New Vaccine" ticked
UiAddVaccine ==
    /\ ui # NoUi
    /\ "vaccination" \in get_required_sections(ui.page)
    /\ Len(lists.temp) < MaxEntries
    /\ \E vaccine \in SessionVaccines :
         /\ lists' = lists_after_add(initialize_session_state(session_state),
                                     lists, vaccine)
         /\ session_state' =
               session_after_add(initialize_session_state(session_state),
                                 lists, vaccine)
         /\ ui' = rendered(session_after_add(
                               initialize_session_state(session_state),
                               lists, vaccine),
                           ui.page, csv_file,
                           [kind |-> "add_vaccine", entry |-> vaccine])
    /\ UNCHANGED <<csv_file, seir_vars, hc_vars, gs_vars, vc_vars>>

\* the user presses Remove beside a vaccine: the entry is popped, st.rerun()
\* starts main again and that run renders the page
UiRemoveVaccine ==
    /\ ui # NoUi
    /\ "vaccination" \in get_required_sections(ui.page)
    /\ \E idx \in 1..Len(session_vaccines(session_state, lists)) :
         /\ lists' = lists_after_remove(initialize_session_state(session_state),
                                        lists, idx)
         /\ ui' = rendered(initialize_session_state(
                               initialize_session_state(session_state)),
                           ui.page, csv_file,
                           [kind |-> "remove_vaccine", idx |-> idx])
    /\ session_state' =
          initialize_session_state(initialize_session_state(session_state))
    /\ UNCHANGED <<csv_file, seir_vars, hc_vars, gs_vars, vc_vars>>

\* the file is deleted or replaced outside the application
FileReplaced ==
    /\ \E file \in FileStates \ {csv_file} : csv_file' = file
    /\ UNCHANGED <<session_state, lists, ui, seir_vars, hc_vars, gs_vars, vc_vars>>

\* src/main.py: the dashboard loads the table through the CountryDataHandler
HandlerLoad ==
    /\ csv_file' = handler_file_after(csv_file)
    /\ UNCHANGED <<session_state, lists, ui, seir_vars, hc_vars, gs_vars, vc_vars>>

AppNext ==
    \/ UiOpen
    \/ UiSelectPage
    \/ UiAddVariant
    \/ UiAddVaccine
    \/ UiRemoveVaccine
    \/ FileReplaced
    \/ HandlerLoad

SpecApp == AppInit /\ [][AppNext]_vars

\* names[i] # names[j] for i # j
unique_names(entries) ==
    \A i, j \in 1..Len(entries) : i # j => entries[i].name # entries[j].name

\* C23: after any sequence of add-variant, add-vaccine and remove-vaccine
\* interactions the session's variant list and vaccine list each hold no two
\* entries of the same name.
InvC23_UniqueNames ==
    ui # NoUi =>
       /\ unique_names(session_state.variants)
       /\ unique_names(session_vaccines(session_state, lists))

\* the last interaction tried to add a vaccine whose name the list already
\* held with other fields, after a removal had made room: the list holds
\* the old entry once
WitC23_UniqueNames ==
    /\ ui # NoUi
    /\ ui.act.kind = "add_vaccine"
    /\ Len(session_vaccines(session_state, lists)) = 2
    /\ Len(session_state.variants) = 2
    /\ \E i \in 1..2 :
          /\ session_vaccines(session_state, lists)[i].name = ui.act.entry.name
          /\ session_vaccines(session_state, lists)[i] # ui.act.entry

\* C24: whenever the file is absent or lacks a required column, the table a
\* page loads for calculate_global_spread or calculate_healthcare_metrics is
\* the regenerated default dataset with every required column, and no error.
InvC24_DefaultOnLoad ==
    (/\ ui.page \in {"Global Spread Map", "Healthcare System Load"}
     /\ ui.view \in {"visualization", "error"}
     /\ (~ui.file.exists \/ ~(required_columns \subseteq ui.file.columns)))
    => /\ ui.err = "none"
       /\ ui.table = [columns |-> required_columns, rows |-> "top 50"]

\* C26: whenever the user moves from Home to another page, that run sets
\* show_visualization to False and main shows the notice, not the
\* visualization.
ActC26_NoticeAfterHome ==
    [][(ui.page = "Home" /\ ui'.page \in Pages \ {"Home"})
       => (session_state'.show_visualization = FALSE /\ ui'.view = "notice")]_vars

=============================================================================
